---- MODULE Spec2Model ----
(***************************************************************************)
(* A state-machine model of AlgoService (algo-connector): the broadcast    *)
(* and confirmation protocol, the deferred-signing path, and the query     *)
(* facade.  One service call runs at a time; every await of the code is a  *)
(* step boundary, and the node (its round and the fate of the submitted    *)
(* transaction) evolves between the steps.                                 *)
(***************************************************************************)
EXTENDS Integers, Sequences, FiniteSets, TLC

\* Rounds the node may complete on its own account while a call is running.
MaxRound == 3

\* JavaScript's undefined, for values that are strings or absent.
UNDEF == "<undefined>"

TxDatas == {"AABB"}
TxIds == {"TX1", "TX2"}
SigIds == {UNDEF, "", "sig-1"}
Indexes == {-1, 0}            \* -1 stands for an absent index
StoredIds == {"kms-1"}
TestnetArgs == {"undefined", "true", "false"}
TestKeys == {UNDEF, "TESTKEY"}
MainKeys == {UNDEF, "MAINKEY"}
Amounts == {0, 1500000}

VARIABLES
  pc,            \* position of the running call ("idle" before, "done" after)
  op,            \* the public operation that was called
  tx,            \* sendTransaction's tx: [signatureId, index]
  txData,        \* the signed payload
  signatureId,   \* broadcast's signatureId parameter
  testnetArg,    \* the testnet parameter of getCurrentBlock / getPayTransactions
  sendTx,        \* sendTx.txId, the id the node returned from submission
  lastround,     \* waitForConfirmation's local
  limit,         \* waitForConfirmation's local
  confirm,       \* "unset", "true" or "false": waitForConfirmation's result
  isTestnetLocal,\* getPayTransactions' local isTestnet
  calls,         \* every call made to a collaborator, in order
  outcome,       \* what the operation returned or threw
  nodeRound,     \* the node's last completed round
  txConfRound,   \* round in which the submitted tx was confirmed, 0 if none
  txPoolError,   \* the node's pool-error for the submitted tx, "" if none
  submitRound,   \* nodeRound when the tx was submitted, 0 before
  testnetCfg,    \* what isTestnet() of the deployment answers
  envTestKey,    \* process.env.TATUM_ALGORAND_TESTNET_THIRD_API_KEY
  envMainKey     \* process.env.TATUM_ALGORAND_MAINNET_THIRD_API_KEY

vars == <<pc, op, tx, txData, signatureId, testnetArg, sendTx, lastround, limit,
          confirm, isTestnetLocal, calls, outcome, nodeRound, txConfRound,
          txPoolError, submitRound, testnetCfg, envTestKey, envMainKey>>

progVars == <<pc, op, tx, txData, signatureId, testnetArg, sendTx, lastround,
              limit, confirm, isTestnetLocal, calls, outcome>>
nodeVars == <<nodeRound, txConfRound, txPoolError, submitRound>>
cfgVars == <<testnetCfg, envTestKey, envMainKey>>

----------------------------------------------------------------------------
\* JavaScript truthiness of a string-or-undefined and of a number-or-undefined.
TruthyStr(s) == s # UNDEF /\ s # ""
TruthyNum(n) == n # 0
\* `${v}` of a string-or-undefined.
TemplateStr(s) == IF s = UNDEF THEN "undefined" ELSE s

\* What a call gave its caller: a returned value with its JavaScript shape, the
\* collaborator's own error propagated unchanged, or an AlgoError.
\* An outcome is <<kind, shape, value>>.
NoOutcome == <<"none", "none", "">>
Returned(shape, v) == <<"return", shape, v>>
RawError(call) == <<"RawError", "error", call>>
AlgoError(msg) == <<"AlgoError", "error", msg>>
Kind(o) == o[1]
Shape(o) == o[2]
Value(o) == o[3]

\* A call to a collaborator that returned `res`, and one that threw.
\* An entry is <<name, ok, argument, result>>.
Call(name, arg, res) == <<name, TRUE, arg, res>>
Thrown(name, arg) == <<name, FALSE, arg, "throw">>
CallName(e) == e[1]
Ok(e) == e[2]
Arg(e) == e[3]
Res(e) == e[4]
Calls(name) == SelectSeq(calls, LAMBDA e : CallName(e) = name)
N(name) == Len(Calls(name))

Init ==
  /\ pc = "idle" /\ op = "none"
  /\ tx = [signatureId |-> UNDEF, index |-> -1]
  /\ txData = UNDEF /\ signatureId = UNDEF /\ testnetArg = "undefined"
  /\ sendTx = UNDEF /\ lastround = 0 /\ limit = 0 /\ confirm = "unset"
  /\ isTestnetLocal = FALSE
  /\ calls = <<>> /\ outcome = NoOutcome
  /\ nodeRound = 1 /\ txConfRound = 0 /\ txPoolError = "" /\ submitRound = 0
  /\ testnetCfg \in BOOLEAN
  /\ envTestKey \in TestKeys /\ envMainKey \in MainKeys

----------------------------------------------------------------------------
(* getClient(testnet?): the network is the argument when one is given,      *)
(* isTestnet() otherwise.                                                   *)
ClientTestnet(arg) == IF arg # "undefined" THEN arg = "true" ELSE testnetCfg

\* A faulty variant: the branches of `if (signatureId)` swapped.
UseStore_Inverted(sig) == ~TruthyStr(sig)

(* sendTransaction -> broadcastOrStoreKMSTransaction: store when the tx     *)
(* carries a (truthy) signatureId, broadcast otherwise.                     *)
UseStore(sig) == TruthyStr(sig)

\* A faulty variant: one more pass of the loop.
LoopBound_OneMore == 2 + 1

\* The bound of the polling loop, `while (limit < 2)`.
LoopBound == 2

\* A faulty variant: the pool-error branch is missing.
PendingVerdict_IgnoresPoolError(info) ==
  IF TruthyNum(info.confirmedRound) THEN "confirmed" ELSE "pending"

\* What one pendingTransactionInformation response means to the loop.
PendingVerdict(info) ==
  IF TruthyNum(info.confirmedRound) THEN "confirmed"
  ELSE IF TruthyStr(info.poolError) THEN "rejected"
  ELSE "pending"

\* A faulty variant: the cursor skips a round.
NextRound_SkipsOne(r) == r + 2

\* `lastround++` before the wait.
NextRound(r) == r + 1

\* A faulty variant: the submission error is swallowed and the call goes on.
OnSubmitFailure_Continues == [pc |-> "w_status", outcome |-> NoOutcome]

\* sendRawTransaction is awaited outside any try: its failure is the call's.
OnSubmitFailure == [pc |-> "done", outcome |-> RawError("sendRawTransaction")]

\* A faulty variant: the catch rethrows.
OnCompleteError_Rethrows(txId) == RawError("completeKMSTransaction")

\* The catch around completeKMSTransaction: log, return {txId, failed: true}.
OnCompleteError(txId) == Returned("object", [txId |-> txId, failed |-> TRUE])

\* broadcast after waitForConfirmation returned `c`: where it goes and with what.
AfterLoop(c, sig, txId) ==
  IF c
  THEN IF TruthyStr(sig)
       THEN [pc |-> "b_complete", outcome |-> NoOutcome]
       ELSE [pc |-> "done", outcome |-> Returned("string", txId)]
  ELSE [pc |-> "done", outcome |-> AlgoError("Failed Algo Transaction Signing")]

\* waitForConfirmation returns `c` and broadcast runs on to its next await.
Finish(c, newCalls) ==
  LET r == AfterLoop(c, signatureId, sendTx) IN
  /\ confirm' = (IF c THEN "true" ELSE "false")
  /\ pc' = r.pc
  /\ outcome' = r.outcome
  /\ calls' = newCalls

\* A collaborator call throws and nothing catches it.
Throws(name, arg) ==
  /\ pc' = "done"
  /\ outcome' = RawError(name)
  /\ calls' = Append(calls, Thrown(name, arg))

----------------------------------------------------------------------------
\* broadcast(txData, signatureId?) is called; it logs and resolves the client.
Broadcast ==
  /\ pc = "idle"
  /\ \E td \in TxDatas, sig \in SigIds :
       /\ op' = "broadcast"
       /\ txData' = td
       /\ signatureId' = sig
  /\ pc' = "b_getClient"
  /\ calls' = Append(calls, Call("logger.info", txData', "ok"))
  /\ UNCHANGED <<tx, testnetArg, sendTx, lastround, limit, confirm,
                 isTestnetLocal, outcome, nodeVars, cfgVars>>

\* const client = await this.getClient()
BGetClient ==
  /\ pc = "b_getClient"
  /\ \/ /\ pc' = "b_send"
        /\ calls' = Append(calls, Call("getClient", ClientTestnet("undefined"), "ok"))
        /\ UNCHANGED outcome
     \/ Throws("getClient", ClientTestnet("undefined"))
  /\ UNCHANGED <<op, tx, txData, signatureId, testnetArg, sendTx, lastround,
                 limit, confirm, isTestnetLocal, nodeVars, cfgVars>>

\* const sendTx = await client.sendRawTransaction(txData).do()
BSend ==
  /\ pc = "b_send"
  /\ \/ \E id \in TxIds :
          /\ sendTx' = id
          /\ submitRound' = nodeRound
          /\ pc' = "w_status"
          /\ calls' = Append(calls, Call("sendRawTransaction", txData, id))
          /\ UNCHANGED outcome
     \/ /\ pc' = OnSubmitFailure.pc
        /\ outcome' = OnSubmitFailure.outcome
        /\ calls' = Append(calls, Thrown("sendRawTransaction", txData))
        /\ UNCHANGED <<sendTx, submitRound>>
  /\ UNCHANGED <<op, tx, txData, signatureId, testnetArg, lastround, limit,
                 confirm, isTestnetLocal, nodeRound, txConfRound, txPoolError,
                 cfgVars>>

\* let lastround = (await algodClient.status().do())['last-round']; let limit = 0
WStatus ==
  /\ pc = "w_status"
  /\ \/ /\ lastround' = nodeRound
        /\ limit' = 0
        /\ calls' = Append(calls, Call("status", <<>>, nodeRound))
        /\ IF 0 < LoopBound
           THEN pc' = "w_poll" /\ UNCHANGED <<confirm, outcome>>
           ELSE Finish(FALSE, calls')
     \/ /\ Throws("status", <<>>)
        /\ UNCHANGED <<lastround, limit, confirm>>
  /\ UNCHANGED <<op, tx, txData, signatureId, testnetArg, sendTx,
                 isTestnetLocal, nodeVars, cfgVars>>

\* One pass of the loop body up to its await of statusAfterBlock.
WPoll ==
  /\ pc = "w_poll"
  /\ \/ LET info == [confirmedRound |-> txConfRound, poolError |-> txPoolError]
            v == PendingVerdict(info)
            polled == Append(calls, Call("pendingTransactionInformation", sendTx, info))
        IN  CASE v = "confirmed" ->
                   Finish(TRUE, polled) /\ UNCHANGED <<lastround, limit>>
              [] v = "rejected" ->
                   Finish(FALSE, polled) /\ UNCHANGED <<lastround, limit>>
              [] OTHER ->
                   /\ lastround' = NextRound(lastround)
                   /\ limit' = limit + 1
                   /\ pc' = "w_wait"
                   /\ calls' = Append(polled, Call("statusAfterBlock", lastround', "pending"))
                   /\ UNCHANGED <<confirm, outcome>>
     \/ /\ Throws("pendingTransactionInformation", sendTx)
        /\ UNCHANGED <<lastround, limit, confirm>>
  /\ UNCHANGED <<op, tx, txData, signatureId, testnetArg, sendTx,
                 isTestnetLocal, nodeVars, cfgVars>>

\* statusAfterBlock(lastround) returns once that round is complete; the loop
\* test follows.
WWait ==
  /\ pc = "w_wait"
  /\ \/ /\ nodeRound >= lastround
        /\ IF limit < LoopBound
           THEN pc' = "w_poll" /\ UNCHANGED <<confirm, outcome, calls>>
           ELSE Finish(FALSE, calls)
     \/ /\ pc' = "done"
        /\ outcome' = RawError("statusAfterBlock")
        /\ UNCHANGED <<confirm, calls>>
  /\ UNCHANGED <<op, tx, txData, signatureId, testnetArg, sendTx, lastround,
                 limit, isTestnetLocal, nodeVars, cfgVars>>

\* await this.completeKMSTransaction(sendTx.txId, signatureId), in a try.
BComplete ==
  /\ pc = "b_complete"
  /\ pc' = "done"
  /\ \/ /\ calls' = Append(calls, Call("completeKMSTransaction", <<sendTx, signatureId>>, "ok"))
        /\ outcome' = Returned("string", sendTx)
     \/ /\ calls' = Append(Append(calls,
                       Thrown("completeKMSTransaction", <<sendTx, signatureId>>)),
                       Call("logger.error", "e", "ok"))
        /\ outcome' = OnCompleteError(sendTx)
  /\ UNCHANGED <<op, tx, txData, signatureId, testnetArg, sendTx, lastround,
                 limit, confirm, isTestnetLocal, nodeVars, cfgVars>>

----------------------------------------------------------------------------
\* The node, between the steps of a call that has submitted a transaction.
Submitted == submitRound # 0 /\ pc \notin {"idle", "done"}

\* The node completes a round; the pending transaction may be in its block.
AdvanceRound ==
  /\ Submitted
  /\ nodeRound < MaxRound \/ (pc = "w_wait" /\ nodeRound < lastround)
  /\ nodeRound' = nodeRound + 1
  /\ \/ UNCHANGED txConfRound
     \/ txConfRound = 0 /\ txConfRound' = nodeRound + 1
  /\ UNCHANGED <<txPoolError, submitRound, progVars, cfgVars>>

\* The node's pool drops the transaction and records why.
PoolReject ==
  /\ Submitted
  /\ txPoolError = ""
  /\ txPoolError' = "overspend"
  /\ UNCHANGED <<nodeRound, txConfRound, submitRound, progVars, cfgVars>>

----------------------------------------------------------------------------
\* sendTransaction(tx) is called.
SendTransaction ==
  /\ pc = "idle"
  /\ \E sig \in SigIds, ix \in Indexes :
       tx' = [signatureId |-> sig, index |-> ix]
  /\ op' = "sendTransaction"
  /\ pc' = "s_prepare"
  /\ UNCHANGED <<txData, signatureId, testnetArg, sendTx, lastround, limit,
                 confirm, isTestnetLocal, calls, outcome, nodeVars, cfgVars>>

\* txData = await prepareAlgoSignedTransaction(...), then
\* broadcastOrStoreKMSTransaction up to its first await: the store call is
\* issued, or broadcast(transactionData) is entered with no signatureId.
SPrepare ==
  /\ pc = "s_prepare"
  /\ \/ \E td \in TxDatas :
          LET prepared == Append(calls, Call("prepareAlgoSignedTransaction", tx, td)) IN
          /\ txData' = td
          /\ IF UseStore(tx.signatureId)
             THEN /\ pc' = "s_store"
                  /\ calls' = prepared
             ELSE /\ pc' = "b_getClient"
                  /\ calls' = Append(prepared, Call("logger.info", td, "ok"))
          /\ UNCHANGED outcome
     \/ /\ Throws("prepareAlgoSignedTransaction", tx)
        /\ UNCHANGED txData
  /\ UNCHANGED <<op, tx, signatureId, testnetArg, sendTx, lastround, limit,
                 confirm, isTestnetLocal, nodeVars, cfgVars>>

\* { signatureId: await this.storeKMSTransaction(transactionData, ALGO, [signatureId], index) }
SStore ==
  /\ pc = "s_store"
  /\ LET arg == <<txData, "ALGO", <<tx.signatureId>>, tx.index>> IN
     \/ \E id \in StoredIds :
          /\ pc' = "done"
          /\ calls' = Append(calls, Call("storeKMSTransaction", arg, id))
          /\ outcome' = Returned("object", [signatureId |-> id])
     \/ Throws("storeKMSTransaction", arg)
  /\ UNCHANGED <<op, tx, txData, signatureId, testnetArg, sendTx, lastround,
                 limit, confirm, isTestnetLocal, nodeVars, cfgVars>>

----------------------------------------------------------------------------
\* The query facade.
MicroUnit == 1000000

BlockMsg == "Failed Algo get block by round number"
TransactionMsg == "Failed Algo get transaction by transaction id"
PayMsg == "Failed Algo get pay transactions by from and to"

\* An amount of micro-units in whole units: <<whole part, remaining micro-units>>.
ToWhole(amount) == <<amount \div MicroUnit, amount % MicroUnit>>

\* A query operation is called.
Query ==
  /\ pc = "idle"
  /\ \/ op' = "getBalance" /\ pc' = "gb_client" /\ UNCHANGED testnetArg
     \/ /\ op' = "getCurrentBlock" /\ pc' = "gc_client"
        /\ testnetArg' \in TestnetArgs
     \/ op' = "getBlock" /\ pc' = "gk_client" /\ UNCHANGED testnetArg
     \/ op' = "getTransaction" /\ pc' = "gt_client" /\ UNCHANGED testnetArg
     \/ /\ op' = "getPayTransactions" /\ pc' = "gp_net"
        /\ testnetArg' \in TestnetArgs
  /\ UNCHANGED <<tx, txData, signatureId, sendTx, lastround, limit, confirm,
                 isTestnetLocal, calls, outcome, nodeVars, cfgVars>>

queryFrame == <<op, tx, txData, signatureId, testnetArg, sendTx, lastround,
                limit, confirm, nodeVars, cfgVars>>

\* getBalance: const client = await this.getClient()
GetBalanceClient ==
  /\ pc = "gb_client"
  /\ \/ /\ pc' = "gb_req"
        /\ calls' = Append(calls, Call("getClient", ClientTestnet("undefined"), "ok"))
        /\ UNCHANGED outcome
     \/ Throws("getClient", ClientTestnet("undefined"))
  /\ UNCHANGED <<queryFrame, isTestnetLocal>>

\* getBalance: accountInformation(address), returned as amount / 1000000
GetBalanceRequest ==
  /\ pc = "gb_req"
  /\ \/ \E amount \in Amounts :
          /\ pc' = "done"
          /\ calls' = Append(calls, Call("accountInformation", "address", amount))
          /\ outcome' = Returned("number", ToWhole(amount))
     \/ Throws("accountInformation", "address")
  /\ UNCHANGED <<queryFrame, isTestnetLocal>>

\* getCurrentBlock: const client = await this.getClient(testnet)
GetCurrentBlockClient ==
  /\ pc = "gc_client"
  /\ \/ /\ pc' = "gc_req"
        /\ calls' = Append(calls, Call("getClient", ClientTestnet(testnetArg), "ok"))
        /\ UNCHANGED outcome
     \/ Throws("getClient", ClientTestnet(testnetArg))
  /\ UNCHANGED <<queryFrame, isTestnetLocal>>

\* getCurrentBlock: (await client.getTransactionParams().do()).firstRound
GetCurrentBlockRequest ==
  /\ pc = "gc_req"
  /\ \/ /\ pc' = "done"
        /\ calls' = Append(calls, Call("getTransactionParams", <<>>, nodeRound))
        /\ outcome' = Returned("number", nodeRound)
     \/ Throws("getTransactionParams", <<>>)
  /\ UNCHANGED <<queryFrame, isTestnetLocal>>

\* A step of getBlock / getTransaction inside their try: a throw becomes the
\* operation's AlgoError.
Caught(name, arg, msg) ==
  /\ pc' = "done"
  /\ outcome' = AlgoError(msg)
  /\ calls' = Append(calls, Thrown(name, arg))

\* getBlock: const indexerClient = await this.getIndexerClient()
GetBlockClient ==
  /\ pc = "gk_client"
  /\ \/ /\ pc' = "gk_req"
        /\ calls' = Append(calls, Call("getIndexerClient", testnetCfg, "ok"))
        /\ UNCHANGED outcome
     \/ Caught("getIndexerClient", testnetCfg, BlockMsg)
  /\ UNCHANGED <<queryFrame, isTestnetLocal>>

\* getBlock: lookupBlock(roundNumber), mapped
GetBlockRequest ==
  /\ pc = "gk_req"
  /\ \/ /\ pc' = "done"
        /\ calls' = Append(calls, Call("lookupBlock", "round", "block"))
        /\ outcome' = Returned("object", "block")
     \/ Caught("lookupBlock", "round", BlockMsg)
  /\ UNCHANGED <<queryFrame, isTestnetLocal>>

\* getTransaction: const indexerClient = await this.getIndexerClient()
GetTransactionClient ==
  /\ pc = "gt_client"
  /\ \/ /\ pc' = "gt_req"
        /\ calls' = Append(calls, Call("getIndexerClient", testnetCfg, "ok"))
        /\ UNCHANGED outcome
     \/ Caught("getIndexerClient", testnetCfg, TransactionMsg)
  /\ UNCHANGED <<queryFrame, isTestnetLocal>>

\* getTransaction: lookupTransactionByID(txid), mapped
GetTransactionRequest ==
  /\ pc = "gt_req"
  /\ \/ /\ pc' = "done"
        /\ calls' = Append(calls, Call("lookupTransactionByID", "txid", "transaction"))
        /\ outcome' = Returned("object", "transaction")
     \/ Caught("lookupTransactionByID", "txid", TransactionMsg)
  /\ UNCHANGED <<queryFrame, isTestnetLocal>>

\* getPayTransactions: const isTestnet = testnet || (await this.isTestnet())
GetPayNetwork ==
  /\ pc = "gp_net"
  /\ IF testnetArg = "true"
     THEN /\ isTestnetLocal' = TRUE
          /\ pc' = "gp_url"
          /\ UNCHANGED <<calls, outcome>>
     ELSE \/ /\ isTestnetLocal' = testnetCfg
             /\ pc' = "gp_url"
             /\ calls' = Append(calls, Call("isTestnet", <<>>, testnetCfg))
             /\ UNCHANGED outcome
          \/ /\ Throws("isTestnet", <<>>)
             /\ UNCHANGED isTestnetLocal
  /\ UNCHANGED queryFrame

\* getPayTransactions: const baseurl = (await this.getNodesUrl(INDEXER))[0]
GetPayUrl ==
  /\ pc = "gp_url"
  /\ \/ /\ pc' = "gp_req"
        /\ calls' = Append(calls, Call("getNodesUrl", "INDEXER", "baseurl"))
        /\ UNCHANGED outcome
     \/ Throws("getNodesUrl", "INDEXER")
  /\ UNCHANGED <<queryFrame, isTestnetLocal>>

\* The headers of the search request: a set of <<name, value>>.
PayHeaders(isTestnet) ==
  IF isTestnet
  THEN IF TruthyStr(envTestKey) THEN {}
       ELSE {<<"X-API-Key", TemplateStr(envTestKey)>>}
  ELSE IF TruthyStr(envMainKey) THEN {}
       ELSE {<<"X-API-Key", TemplateStr(envMainKey)>>}

\* getPayTransactions: the axios request, in a try that logs and rethrows AlgoError
GetPayRequest ==
  /\ pc = "gp_req"
  /\ pc' = "done"
  /\ LET arg == [headers |-> PayHeaders(isTestnetLocal)] IN
     \/ /\ calls' = Append(calls, Call("axios", arg, "page"))
        /\ outcome' = Returned("object", "page")
     \/ /\ calls' = Append(Append(calls, Thrown("axios", arg)),
                           Call("logger.error", "e", "ok"))
        /\ outcome' = AlgoError(PayMsg)
  /\ UNCHANGED <<queryFrame, isTestnetLocal>>

Next ==
  \/ Broadcast \/ BGetClient \/ BSend \/ WStatus \/ WPoll \/ WWait \/ BComplete
  \/ SendTransaction \/ SPrepare \/ SStore
  \/ Query
  \/ GetBalanceClient \/ GetBalanceRequest
  \/ GetCurrentBlockClient \/ GetCurrentBlockRequest
  \/ GetBlockClient \/ GetBlockRequest
  \/ GetTransactionClient \/ GetTransactionRequest
  \/ GetPayNetwork \/ GetPayUrl \/ GetPayRequest
  \/ AdvanceRound \/ PoolReject

Spec == Init /\ [][Next]_vars

\* The steps of a call that has started: each is the return of an await.
Step ==
  \/ BGetClient \/ BSend \/ WStatus \/ WPoll \/ WWait \/ BComplete
  \/ SPrepare \/ SStore
  \/ GetBalanceClient \/ GetBalanceRequest
  \/ GetCurrentBlockClient \/ GetCurrentBlockRequest
  \/ GetBlockClient \/ GetBlockRequest
  \/ GetTransactionClient \/ GetTransactionRequest
  \/ GetPayNetwork \/ GetPayUrl \/ GetPayRequest

\* Every awaited call returns or throws, and the node keeps completing rounds.
FairSpec == Spec /\ WF_vars(Step) /\ WF_vars(AdvanceRound)

----------------------------------------------------------------------------
\* Vocabulary of the properties.
BroadcastCalled == N("logger.info") > 0
Polls == Calls("pendingTransactionInformation")
Waits == Calls("statusAfterBlock")
Completions == Calls("completeKMSTransaction")
Submissions == Calls("sendRawTransaction")
Stores == Calls("storeKMSTransaction")
SigningFailedMsg == "Failed Algo Transaction Signing"

\* A poll that returned, and what its response carried.
CarriesConfirmed(e) == Ok(e) /\ TruthyNum(Res(e).confirmedRound)
CarriesPoolError(e) == Ok(e) /\ TruthyStr(Res(e).poolError)
StillPending(e) == Ok(e) /\ ~TruthyNum(Res(e).confirmedRound) /\ ~TruthyStr(Res(e).poolError)

BroadcastFailed == Kind(outcome) = "AlgoError" /\ Value(outcome) = SigningFailedMsg
ReturnedBareId == Kind(outcome) = "return" /\ Shape(outcome) = "string" /\ Value(outcome) = sendTx

\* C1: a transaction the node accepted and the chain confirmed within 2 rounds
\* of its submission, broadcast with no signature identifier and with no node
\* call failing: broadcast returns exactly the submitted id and never calls the
\* delegate's completion.
C1_DirectBroadcastReturnsId ==
  ( /\ pc = "done" /\ BroadcastCalled /\ ~TruthyStr(signatureId)
    /\ sendTx # UNDEF
    /\ txConfRound \in (submitRound + 1)..(submitRound + 2)
    /\ txPoolError = ""
    /\ Kind(outcome) # "RawError" )
  => (ReturnedBareId /\ Len(Completions) = 0)

\* C2: broadcast with a signature identifier whose loop reported confirmed has
\* called completion once with (transaction id, signature id); it returned the
\* bare id if completion succeeded and the record {txId, failed: true}, without
\* raising, if completion threw.
C2_ReconciliationOutcome ==
  ( pc = "done" /\ BroadcastCalled /\ TruthyStr(signatureId) /\ confirm = "true" )
  => /\ Len(Completions) = 1
     /\ Arg(Completions[1]) = <<sendTx, signatureId>>
     /\ IF Ok(Completions[1])
        THEN ReturnedBareId
        ELSE /\ Kind(outcome) = "return" /\ Shape(outcome) = "object"
             /\ Value(outcome) = [txId |-> sendTx, failed |-> TRUE]

C2_Witness ==
  /\ pc = "done" /\ BroadcastCalled /\ TruthyStr(signatureId) /\ confirm = "true"
  /\ Len(Completions) = 1 /\ ~Ok(Completions[1])
  /\ Shape(outcome) = "object"

\* C3 as stated: a poll that carries a pool-error marker is the last call made:
\* the loop stops with REJECTED and broadcast fails with its AlgoError.
C3_AnyPoolErrorStops ==
  \A i \in DOMAIN calls :
    ( CallName(calls[i]) = "pendingTransactionInformation" /\ CarriesPoolError(calls[i]) )
    => ( i = Len(calls) /\ pc = "done" /\ confirm = "false" /\ BroadcastFailed )

\* C3 amended: a poll that carries a pool-error marker and no confirmed-round
\* marker is the last call made: no poll and no statusAfterBlock wait follows
\* it, the loop result is REJECTED and broadcast fails with its AlgoError,
\* returning no id.
C3_PoolErrorWithoutConfirmationStops ==
  \A i \in DOMAIN calls :
    ( /\ CallName(calls[i]) = "pendingTransactionInformation"
      /\ CarriesPoolError(calls[i]) /\ ~CarriesConfirmed(calls[i]) )
    => ( i = Len(calls) /\ pc = "done" /\ confirm = "false" /\ BroadcastFailed )

\* The pool error arrives on the second poll.
C3_Witness ==
  /\ pc = "done" /\ Len(Polls) = 2
  /\ StillPending(Polls[1])
  /\ CarriesPoolError(Polls[2]) /\ ~CarriesConfirmed(Polls[2])
  /\ BroadcastFailed

\* C4: no broadcast polls more than 2 times; one whose polls all answered
\* "still pending" and whose node calls all returned made exactly 2 polls and
\* failed with its AlgoError; and once submission succeeded the call ends.
C4_PendingExhaustsAfterTwoPolls ==
  /\ [](Len(Polls) <= 2)
  /\ []( ( /\ pc = "done" /\ BroadcastCalled /\ sendTx # UNDEF
           /\ Kind(outcome) # "RawError"
           /\ \A i \in DOMAIN Polls : StillPending(Polls[i]) )
         => ( Len(Polls) = 2 /\ Len(Waits) = 2 /\ BroadcastFailed ) )
  /\ ((pc = "w_status") ~> (pc = "done"))

C4_Witness ==
  /\ pc = "done" /\ Len(Polls) = 2
  /\ \A i \in DOMAIN Polls : StillPending(Polls[i])
  /\ BroadcastFailed

\* C5: submission is attempted at most once per call, and a failed submission
\* is the call's outcome: no status, poll, wait or completion call is made.
C5_SubmissionFailurePropagates ==
  /\ Len(Submissions) <= 1
  /\ (Len(Submissions) = 1 /\ ~Ok(Submissions[1]))
     => /\ pc = "done"
        /\ outcome = RawError("sendRawTransaction")
        /\ Len(Polls) = 0 /\ Len(Waits) = 0
        /\ N("status") = 0 /\ Len(Completions) = 0

C5_Witness ==
  pc = "done" /\ Len(Submissions) = 1 /\ ~Ok(Submissions[1])

\* C6: when the first poll answers pending and the second carries a
\* confirmed-round marker, waitForConfirmation reports CONFIRMED after exactly
\* 2 polls and exactly one statusAfterBlock wait, for the round after the one
\* status() reported when the loop started.
C6_ConfirmedOnSecondPoll ==
  ( Len(Polls) >= 2 /\ StillPending(Polls[1]) /\ CarriesConfirmed(Polls[2]) )
  => /\ confirm = "true"
     /\ Len(Polls) = 2
     /\ Len(Waits) = 1
     /\ N("status") = 1
     /\ Arg(Waits[1]) = Res(Calls("status")[1]) + 1

C6_Witness ==
  /\ Len(Polls) = 2 /\ StillPending(Polls[1]) /\ CarriesConfirmed(Polls[2])
  /\ confirm = "true" /\ pc = "done"

\* C7: a query operation whose node or indexer request failed ends with the
\* AlgoError of that operation, never with the request's own error.
RequestCalls ==
  {"accountInformation", "getTransactionParams", "lookupBlock",
   "lookupTransactionByID", "axios"}
QueryOps ==
  {"getBalance", "getCurrentBlock", "getBlock", "getTransaction", "getPayTransactions"}
C7_QueryFailureIsAlgoError ==
  ( /\ pc = "done" /\ op \in QueryOps
    /\ \E i \in DOMAIN calls : CallName(calls[i]) \in RequestCalls /\ ~Ok(calls[i]) )
  => Kind(outcome) = "AlgoError"

\* C8: sendTransaction of a tx with a signature identifier stores it once with
\* [signatureId] and the index, returns {signatureId: stored id}, and never
\* enters broadcast, submits, polls or completes; without one it never stores
\* and enters broadcast.
C8_DeferredPathBypassesBroadcast ==
  (op = "sendTransaction") =>
    /\ Len(Completions) = 0
    /\ TruthyStr(tx.signatureId) =>
         /\ ~BroadcastCalled /\ Len(Submissions) = 0 /\ Len(Polls) = 0
         /\ Len(Stores) <= 1
         /\ (pc = "done" /\ Kind(outcome) = "return") =>
              /\ Len(Stores) = 1
              /\ Arg(Stores[1]) = <<txData, "ALGO", <<tx.signatureId>>, tx.index>>
              /\ Shape(outcome) = "object"
              /\ Value(outcome) = [signatureId |-> Res(Stores[1])]
    /\ ~TruthyStr(tx.signatureId) =>
         /\ Len(Stores) = 0
         /\ (N("prepareAlgoSignedTransaction") = 1 /\ Ok(calls[1])) => BroadcastCalled

C8_Witness ==
  /\ op = "sendTransaction" /\ TruthyStr(tx.signatureId) /\ tx.index = 0
  /\ pc = "done" /\ Len(Stores) = 1 /\ Kind(outcome) = "return"

\* C9: the search request carries X-API-Key equal to the configured key of the
\* effective network, and never the other network's key.
C9_ApiKeyOfEffectiveNetwork ==
  \A i \in DOMAIN calls :
    (CallName(calls[i]) = "axios") =>
      LET h == Arg(calls[i]).headers IN
      /\ (isTestnetLocal /\ TruthyStr(envTestKey)) => h = {<<"X-API-Key", envTestKey>>}
      /\ (~isTestnetLocal /\ TruthyStr(envMainKey)) => h = {<<"X-API-Key", envMainKey>>}
      /\ isTestnetLocal => <<"X-API-Key", "MAINKEY">> \notin h
      /\ ~isTestnetLocal => <<"X-API-Key", "TESTKEY">> \notin h

\* C10: a broadcast that failed after its attempts ran out did so for a
\* transaction not confirmed in any round up to and including the last round
\* the loop waited for.
C10_FailedOnlyIfNotFinalized ==
  ( pc = "done" /\ BroadcastCalled /\ BroadcastFailed /\ limit = LoopBound )
  => ~(txConfRound # 0 /\ txConfRound <= lastround)

====
